---- MODULE Spec2Model ----
(***************************************************************************)
(* A model of the Husker football schedule scraper (scraper/scrape.py and  *)
(* scraper/utils.py).  Texts are TLA+ strings; the text functions of the   *)
(* source (clean, slugify, the regular expressions, datetime.isoformat,    *)
(* the sort key) are operators that compute character by character.        *)
(***************************************************************************)
EXTENDS Integers, Sequences, FiniteSets, TLC

\* Python's None, for the optional fields of the records.
None == "<None>"

----------------------------------------------------------------------------
\* Characters and elementary string functions (Python str methods).

Ch(s, i) == SubSeq(s, i, i)
From(s, i) == SubSeq(s, i, Len(s))

LowerChars == "abcdefghijklmnopqrstuvwxyz"
UpperChars == "ABCDEFGHIJKLMNOPQRSTUVWXYZ"
DigitChars == "0123456789"
\* The characters of the model's texts in code point order.
CodeOrder == "\n !,-./0123456789:ABCDEFGHIJKLMNOPQRSTUVWXYZabcdefghijklmnopqrstuvwxyz|"

CharsOf(s) == {Ch(s, i) : i \in 1..Len(s)}
LowerSet == CharsOf(LowerChars)
UpperSet == CharsOf(UpperChars)
DigitSet == CharsOf(DigitChars)
AlphaSet == LowerSet \cup UpperSet
SpaceSet == {" ", "\n"}
\* \w of the regular expressions
WordSet == AlphaSet \cup DigitSet

IndexIn(c, s) == IF c \in CharsOf(s) THEN CHOOSE i \in 1..Len(s) : Ch(s, i) = c ELSE 0
Ord(c) == IndexIn(c, CodeOrder)
LowerCh(c) == IF c \in UpperSet THEN Ch(LowerChars, IndexIn(c, UpperChars)) ELSE c
UpperCh(c) == IF c \in LowerSet THEN Ch(UpperChars, IndexIn(c, LowerChars)) ELSE c

RECURSIVE Lower(_)
Lower(s) == IF s = "" THEN "" ELSE LowerCh(Ch(s, 1)) \o Lower(From(s, 2))

RECURSIVE Upper(_)
Upper(s) == IF s = "" THEN "" ELSE UpperCh(Ch(s, 1)) \o Upper(From(s, 2))

\* str.title() of a single alphabetic word
Title(s) == IF s = "" THEN "" ELSE UpperCh(Ch(s, 1)) \o Lower(From(s, 2))

RECURSIVE LStripSet(_, _)
LStripSet(s, cs) == IF s # "" /\ Ch(s, 1) \in cs THEN LStripSet(From(s, 2), cs) ELSE s

RECURSIVE RStripSet(_, _)
RStripSet(s, cs) ==
    IF s # "" /\ Ch(s, Len(s)) \in cs THEN RStripSet(SubSeq(s, 1, Len(s) - 1), cs) ELSE s

\* str.strip()
Strip(s) == RStripSet(LStripSet(s, SpaceSet), SpaceSet)

\* hay.find(needle) from position i on, 1-based; 0 when absent
RECURSIVE FindFrom(_, _, _)
FindFrom(hay, needle, i) ==
    IF i + Len(needle) - 1 > Len(hay) THEN 0
    ELSE IF SubSeq(hay, i, i + Len(needle) - 1) = needle THEN i
    ELSE FindFrom(hay, needle, i + 1)

Find(hay, needle) == FindFrom(hay, needle, 1)

\* needle in hay
Contains(hay, needle) == Find(hay, needle) > 0

StartsWith(s, p) == Len(s) >= Len(p) /\ SubSeq(s, 1, Len(p)) = p

\* int() of a string of digits
RECURSIVE ToInt(_)
ToInt(s) == IF s = "" THEN 0
            ELSE 10 * ToInt(SubSeq(s, 1, Len(s) - 1)) + (IndexIn(Ch(s, Len(s)), DigitChars) - 1)

\* str() of a natural number
RECURSIVE ToStr(_)
ToStr(n) == IF n < 10 THEN Ch(DigitChars, n + 1)
            ELSE ToStr(n \div 10) \o Ch(DigitChars, (n % 10) + 1)

\* "%02d" and "%04d"
Pad2(n) == IF n < 10 THEN "0" \o ToStr(n) ELSE ToStr(n)
Pad4(n) == IF n < 10 THEN "000" \o ToStr(n)
           ELSE IF n < 100 THEN "00" \o ToStr(n)
           ELSE IF n < 1000 THEN "0" \o ToStr(n) ELSE ToStr(n)

\* Python's < on str: lexicographic by code point
RECURSIVE StrLess(_, _)
StrLess(a, b) ==
    IF b = "" THEN FALSE
    ELSE IF a = "" THEN TRUE
    ELSE IF Ch(a, 1) = Ch(b, 1) THEN StrLess(From(a, 2), From(b, 2))
    ELSE Ord(Ch(a, 1)) < Ord(Ch(b, 1))

\* Python truthiness of an optional string, and  x or y
Truthy(x) == x # None /\ x # ""
Or(x, y) == IF Truthy(x) THEN x ELSE y

\* s[i], or "" outside the string (a regular expression fails there)
At(s, i) == IF 1 <= i /\ i <= Len(s) THEN Ch(s, i) ELSE ""

\* Index of the first character of s at or after i that is not in cs (Len(s)+1 if none).
RECURSIVE SkipSet(_, _, _)
SkipSet(s, i, cs) == IF i <= Len(s) /\ Ch(s, i) \in cs THEN SkipSet(s, i + 1, cs) ELSE i

----------------------------------------------------------------------------
\* scraper/utils.py

SlugChars == LowerSet \cup DigitSet

\* _slug_re.sub('-', s): every maximal run outside [a-z0-9] becomes one hyphen
RECURSIVE SlugReSub(_)
SlugReSub(s) ==
    IF s = "" THEN ""
    ELSE IF Ch(s, 1) \in SlugChars THEN Ch(s, 1) \o SlugReSub(From(s, 2))
    ELSE "-" \o SlugReSub(LStripSet(s, CharsOf(s) \ SlugChars))

\* re.sub(r'-+', '-', s)
RECURSIVE CollapseHyphens(_)
CollapseHyphens(s) ==
    IF s = "" THEN ""
    ELSE IF Ch(s, 1) = "-" THEN "-" \o CollapseHyphens(LStripSet(s, {"-"}))
    ELSE Ch(s, 1) \o CollapseHyphens(From(s, 2))

\* Variant of slugify without the .strip('-') of line 24
slugify_untrimmed(s) == CollapseHyphens(SlugReSub(Strip(Lower(s))))

slugify(s) ==
    RStripSet(LStripSet(CollapseHyphens(SlugReSub(Strip(Lower(s)))), {"-"}), {"-"})

TV_MAP ==
    [k \in {"big ten network", "btn", "fox", "fs1", "fs2", "cbs", "nbc", "peacock",
            "abc", "espn", "espn2", "espnu"} |->
        IF k = "big ten network" THEN "btn" ELSE k]

\* re.sub(r"[^a-z0-9 ]+", "", key)
RECURSIVE DropNonKeyChars(_)
DropNonKeyChars(s) ==
    IF s = "" THEN ""
    ELSE IF Ch(s, 1) \in SlugChars \cup {" "} THEN Ch(s, 1) \o DropNonKeyChars(From(s, 2))
    ELSE DropNonKeyChars(From(s, 2))

\* TV_MAP.get(key, None)
tv_map_get(key) == IF key \in DOMAIN TV_MAP THEN TV_MAP[key] ELSE None

normalize_tv(s) ==
    IF ~Truthy(s) THEN None ELSE tv_map_get(DropNonKeyChars(Strip(Lower(s))))

----------------------------------------------------------------------------
\* scraper/scrape.py, parse_schedule: the table stage (lines 75-215)

\* re.sub(r"\s+", " ", s)
RECURSIVE CollapseSpace(_)
CollapseSpace(s) ==
    IF s = "" THEN ""
    ELSE IF Ch(s, 1) \in SpaceSet THEN " " \o CollapseSpace(LStripSet(s, SpaceSet))
    ELSE Ch(s, 1) \o CollapseSpace(From(s, 2))

clean(s) == CollapseSpace(Strip(IF s = None THEN "" ELSE s))

\* mm_map of the table loop: month abbreviation -> month number
Mo3 == <<"Jan", "Feb", "Mar", "Apr", "May", "Jun", "Jul", "Aug", "Sep", "Oct", "Nov", "Dec">>
mm_map == [k \in {Mo3[i] : i \in 1..12} |-> CHOOSE i \in 1..12 : Mo3[i] = k]

\* month_map of parse_date_tokens, keyed by the title-cased month word
month_map ==
    [k \in {"Jan", "January", "Feb", "February", "Mar", "March", "Apr", "April", "May",
            "Jun", "June", "Jul", "July", "Aug", "August", "Sep", "Sept", "September",
            "Oct", "October", "Nov", "November", "Dec", "December"} |->
        mm_map[SubSeq(k, 1, 3)]]

WeekdayAbbr == {"mon", "tue", "wed", "thu", "fri", "sat", "sun"}

NoMatch == [ok |-> FALSE, month_str |-> "", day |-> 0]

\* ([A-Z][a-z]{2,})\s+(\d{1,2}) with re.I, where the letters s[k..m-1] are followed by
\* the white space s[m..n-1]: at least three letters, white space, one or two digits.
MonthDayBetween(s, k, m, n) ==
    IF m - k >= 3 /\ n > m /\ At(s, n) \in DigitSet
    THEN [ok |-> TRUE,
          month_str |-> Title(SubSeq(s, k, m - 1)),
          day |-> ToInt(SubSeq(s, n, IF At(s, n + 1) \in DigitSet THEN n + 1 ELSE n))]
    ELSE NoMatch

MonthDayAfterWord(s, k, m) == MonthDayBetween(s, k, m, SkipSet(s, m, SpaceSet))

\* The pattern of line 86 anchored at k
MonthDayAt(s, k) == MonthDayAfterWord(s, k, SkipSet(s, k, AlphaSet))

WeekdayThenSpace(s, j, k) == IF k > j THEN MonthDayAt(s, k) ELSE NoMatch
WeekdayThenLetters(s, j) == WeekdayThenSpace(s, j, SkipSet(s, j, SpaceSet))

\* The pattern of lines 80-84 anchored at i:
\* (Mon|Tue|Wed|Thu|Fri|Sat|Sun)[a-z]*\s+([A-Z][a-z]{2,})\s+(\d{1,2}) with re.I
WeekdayDateAt(s, i) ==
    IF i + 2 <= Len(s) /\ Lower(SubSeq(s, i, i + 2)) \in WeekdayAbbr
    THEN WeekdayThenLetters(s, SkipSet(s, i + 3, AlphaSet))
    ELSE NoMatch

\* re.search: the leftmost position at or after i where the pattern matches, 0 if none
RECURSIVE FirstWeekdayDate(_, _)
FirstWeekdayDate(s, i) ==
    IF i > Len(s) THEN 0
    ELSE IF WeekdayDateAt(s, i).ok THEN i
    ELSE FirstWeekdayDate(s, i + 1)

RECURSIVE FirstMonthDay(_, _)
FirstMonthDay(s, i) ==
    IF i > Len(s) THEN 0
    ELSE IF MonthDayAt(s, i).ok THEN i
    ELSE FirstMonthDay(s, i + 1)

NoDate == [weekday |-> None, mo3 |-> None, day |-> 0, year |-> 0]

\* Lines 104-108: the year, from the clock value now (datetime.now())
infer_year(mm, now) == IF mm < now.month - 1 THEN now.year + 1 ELSE now.year

\* Lines 95-109: from the matched groups to (weekday, mo3, day, year)
date_tokens(weekday, m, now) ==
    IF m.month_str \notin DOMAIN month_map THEN NoDate
    ELSE [weekday |-> weekday, mo3 |-> SubSeq(m.month_str, 1, 3), day |-> m.day,
          year |-> infer_year(month_map[m.month_str], now)]

\* Lines 85-90: the second pattern, tried when the first did not match
date_tokens_plain(s, i2, now) ==
    IF i2 = 0 THEN NoDate ELSE date_tokens(None, MonthDayAt(s, i2), now)

date_tokens_from(s, i1, now) ==
    IF i1 > 0 THEN date_tokens(Upper(SubSeq(s, i1, i1 + 2)), WeekdayDateAt(s, i1), now)
    ELSE date_tokens_plain(s, FirstMonthDay(s, 1), now)

\* parse_date_tokens(date_txt), reading the clock value now
parse_date_tokens(date_txt, now) == date_tokens_from(date_txt, FirstWeekdayDate(date_txt, 1), now)

determine_site(va_txt, city) ==
    IF Contains(Lower(Or(va_txt, "")), "at") THEN "away"
    ELSE IF Contains(Lower(Or(city, "")), "lincoln") THEN "home"
    ELSE "neutral"

\* \b after the word character at position e
BoundaryAfter(s, e) == At(s, e + 1) \notin WordSet

\* Positions of  \d{1,2}:\d{2}\s*[AP]M  anchored at i (re.I): colon, meridiem letter
ClockColon(s, i) == IF At(s, i + 1) \in DigitSet THEN i + 2 ELSE i + 1
ClockMeridiem(s, i) == SkipSet(s, ClockColon(s, i) + 3, SpaceSet)

ClockCoreBetween(s, i, c, p) ==
    /\ At(s, i) \in DigitSet
    /\ At(s, c) = ":"
    /\ At(s, c + 1) \in DigitSet
    /\ At(s, c + 2) \in DigitSet
    /\ LowerCh(At(s, p)) \in {"a", "p"}
    /\ LowerCh(At(s, p + 1)) = "m"

\* \d{1,2}:\d{2}\s*[AP]M anchored at i
ClockCoreAt(s, i) == ClockCoreBetween(s, i, ClockColon(s, i), ClockMeridiem(s, i))

\* (?:\s*[A-Z]{2,3}T)?\b after the M at position e, the zone letters starting at q:
\* the zone is tried with three letters, then two, then left out.
ZoneOk(s, q, n) ==
    /\ \A k \in q..(q + n - 1) : At(s, k) \in AlphaSet
    /\ LowerCh(At(s, q + n)) = "t"
    /\ BoundaryAfter(s, q + n)

ClockEndFrom(s, e, q) ==
    IF ZoneOk(s, q, 3) THEN q + 3
    ELSE IF ZoneOk(s, q, 2) THEN q + 2
    ELSE IF BoundaryAfter(s, e) THEN e
    ELSE 0

ClockEnd(s, e) == ClockEndFrom(s, e, SkipSet(s, e + 1, SpaceSet))

\* The pattern of line 157 anchored at i: the index of the last character matched, 0 if
\* it does not match:  \b(\d{1,2}:\d{2}\s*[AP]M(?:\s*[A-Z]{2,3}T)?)\b  with re.I
ClockAt(s, i) ==
    IF ClockCoreAt(s, i) /\ At(s, i - 1) \notin WordSet
    THEN ClockEnd(s, ClockMeridiem(s, i) + 1)
    ELSE 0

RECURSIVE FirstClock(_, _)
FirstClock(s, i) ==
    IF i > Len(s) THEN 0
    ELSE IF ClockAt(s, i) > 0 THEN i
    ELSE FirstClock(s, i + 1)

\* str.replace(c, "")
RECURSIVE RemoveChar(_, _)
RemoveChar(s, c) ==
    IF s = "" THEN ""
    ELSE (IF Ch(s, 1) = c THEN "" ELSE Ch(s, 1)) \o RemoveChar(From(s, 2), c)

\* Variant of TimeTBA: line 160 forgets to set the flag
TimeTBA_unflagged == [tba |-> FALSE, time_local |-> "TBA"]

TimeTBA == [tba |-> TRUE, time_local |-> "TBA"]

\* Lines 157-162: the clock time found at position i, or TBA
time_from_match(time_col, i) ==
    IF i > 0
    THEN [tba |-> FALSE,
          time_local |-> RemoveChar(Upper(SubSeq(time_col, i, ClockAt(time_col, i))), ".")]
    ELSE TimeTBA

\* Lines 149-162: the Time/Results cell -> [tba, time_local]
parse_time(time_col) ==
    IF time_col = "" \/ Upper(time_col) = "TBA" THEN TimeTBA
    ELSE time_from_match(time_col, FirstClock(time_col, 1))

\* Lines 132-138: the Teams cell -> [va, opp_name];  ^(vs\.|at)\s*(.*)$  with re.I
parse_teams(teams_col) ==
    IF StartsWith(Lower(teams_col), "vs.")
    THEN [va |-> "vs.", opp_name |-> Strip(From(teams_col, 4))]
    ELSE IF StartsWith(Lower(teams_col), "at")
    THEN [va |-> "at", opp_name |-> Strip(From(teams_col, 3))]
    ELSE [va |-> "vs.", opp_name |-> teams_col]

\* x.split(" / ", 1) with the separator at position i, each part stripped
split_at(txt, i) ==
    [city |-> Strip(SubSeq(txt, 1, i - 1)), venue |-> Strip(From(txt, i + 3))]

split_city_venue(txt) == split_at(txt, Find(txt, " / "))

\* Index at or after i of the first separator of  \s{2,}|\|  in s, 0 if none
RECURSIVE FirstSep(_, _)
FirstSep(s, i) ==
    IF i > Len(s) THEN 0
    ELSE IF At(s, i) = "|" \/ (At(s, i) \in SpaceSet /\ At(s, i + 1) \in SpaceSet) THEN i
    ELSE FirstSep(s, i + 1)

\* parts[0] of [p.strip() for p in re.split(r"\s{2,}|\|", s) if p.strip()], None if empty
RECURSIVE FirstPart(_)
FirstPartAt(s, i) ==
    IF i = 0 THEN (IF Strip(s) # "" THEN Strip(s) ELSE None)
    ELSE IF Strip(SubSeq(s, 1, i - 1)) # "" THEN Strip(SubSeq(s, 1, i - 1))
    ELSE FirstPart(From(s, i + 1))
FirstPart(s) == FirstPartAt(s, FirstSep(s, 1))

\* Lines 140-147: the Location cell -> [city, venue]
parse_location(loc_col) ==
    IF Contains(loc_col, " / ") THEN split_city_venue(loc_col)
    ELSE [city |-> FirstPart(loc_col), venue |-> None]

\* re.sub(r",.*$", "", city)
BeforeCommaAt(city, i) == IF i = 0 THEN city ELSE SubSeq(city, 1, i - 1)
BeforeComma(city) == BeforeCommaAt(city, Find(city, ","))

\* Lines 195 and 328: the city tag
city_tag(city) == IF Truthy(city) THEN "-" \o slugify(BeforeComma(city)) ELSE ""

\* Lines 198 and 330: base_slug + (tag if tag and base_slug not in tag else "")
join_slug(base_slug, tag) ==
    base_slug \o (IF tag # "" /\ ~Contains(tag, base_slug) THEN tag ELSE "")

\* Lines 195-198 and 328-330: base slug plus the city tag
compose_slug(base, city) == join_slug(slugify(base), city_tag(city))

\* Lines 190-198: the stadium slug of a table row
table_stadium_slug(venue_label, city, aliases) ==
    IF venue_label \in DOMAIN aliases THEN aliases[venue_label]
    ELSE compose_slug(IF venue_label # "" THEN venue_label ELSE Or(city, "stadium"), city)

\* datetime(...): the constructor raises ValueError outside these ranges
IsLeap(y) == y % 4 = 0 /\ (y % 100 # 0 \/ y % 400 = 0)
DaysInMonth(y, m) ==
    IF m = 2 THEN (IF IsLeap(y) THEN 29 ELSE 28)
    ELSE IF m \in {4, 6, 9, 11} THEN 30 ELSE 31

ValidDateTime(y, m, d, hh, mi) ==
    /\ y \in 1..9999
    /\ m \in 1..12
    /\ d \in 1..DaysInMonth(y, m)
    /\ hh \in 0..23
    /\ mi \in 0..59

\* datetime(y, m, d, hh, mi).isoformat()
isoformat(y, m, d, hh, mi) ==
    Pad4(y) \o "-" \o Pad2(m) \o "-" \o Pad2(d) \o "T" \o Pad2(hh) \o ":" \o Pad2(mi) \o ":00"

\* Variant of lines 177-180 without the rule for 12 AM
to_24h_noon_only(hh, ampm) == IF ampm = "PM" /\ hh # 12 THEN hh + 12 ELSE hh

\* Lines 177-180: 12-hour clock to 24-hour clock
to_24h(hh, ampm) ==
    IF ampm = "PM" /\ hh # 12 THEN hh + 12
    ELSE IF ampm = "AM" /\ hh = 12 THEN 0
    ELSE hh

\* Lines 172-176: the groups of mt2, (\d{1,2}):(\d{2})\s*([AP]M) matched at the start
clock_groups(time_local, c, p) ==
    [hh |-> to_24h(ToInt(SubSeq(time_local, 1, c - 1)), Upper(SubSeq(time_local, p, p + 1))),
     mi |-> ToInt(SubSeq(time_local, c + 1, c + 2))]

\* Lines 171-185: hour and minute handed to datetime(); datetime(year, month, day)
\* without a time is midnight.
clock_fields(tm) ==
    IF ~tm.tba /\ Truthy(tm.time_local) /\ ClockCoreAt(tm.time_local, 1)
    THEN clock_groups(tm.time_local, ClockColon(tm.time_local, 1), ClockMeridiem(tm.time_local, 1))
    ELSE [hh |-> 0, mi |-> 0]

\* Line 168: if mo3 and day and year
IsDated(d) == Truthy(d.mo3) /\ d.day # 0 /\ d.year # 0

\* Lines 166-185: datetime() raises ValueError
date_raises(d, hm) == IsDated(d) /\ ~ValidDateTime(d.year, mm_map[d.mo3], d.day, hm.hh, hm.mi)

\* Lines 166-185: date_iso
date_iso_of(d, hm) ==
    IF IsDated(d) THEN isoformat(d.year, mm_map[d.mo3], d.day, hm.hh, hm.mi) ELSE None

\* Line 169: date_str
date_str_of(d) == IF IsDated(d) THEN d.mo3 \o " " \o ToStr(d.day) ELSE None

\* s.split()[0]
FirstWordOf(t) == SubSeq(t, 1, SkipSet(t, 1, CharsOf(t) \ SpaceSet) - 1)
FirstWord(s) == FirstWordOf(LStripSet(s, SpaceSet))

\* Line 202: weekday or (date_str or "").split()[0].upper() if date_str else None
weekday_field(weekday, date_str) ==
    IF Truthy(date_str) THEN Or(weekday, Upper(FirstWord(date_str))) ELSE None

\* Lines 187-215: the record appended to games
game_record(date_col, t, loc, tm, d, aliases) ==
    [date_iso |-> date_iso_of(d, clock_fields(tm)),
     weekday |-> weekday_field(d.weekday, date_str_of(d)),
     date_str |-> Or(date_str_of(d), date_col),
     time_local |-> tm.time_local,
     tba |-> tm.tba,
     site |-> determine_site(t.va, loc.city),
     va |-> t.va,
     opponent_name |-> t.opp_name,
     opponent_slug |-> IF t.opp_name # "" THEN slugify(t.opp_name) ELSE None,
     location_city |-> loc.city,
     location_venue |-> Or(loc.venue, ""),
     stadium_slug |-> table_stadium_slug(Or(loc.venue, ""), loc.city, aliases),
     tv_network |-> None,
     status |-> "scheduled"]

\* Lines 127-215: one pass of the table loop over a row tds of at least four cells
parse_row(tds, now, aliases) ==
    game_record(clean(tds[1]), parse_teams(clean(tds[2])), parse_location(clean(tds[3])),
                parse_time(clean(tds[4])), parse_date_tokens(clean(tds[1]), now), aliases)

\* Lines 164-185: the pass raises ValueError from datetime(); nothing in
\* parse_schedule or main catches it.
row_raises(tds, now) ==
    date_raises(parse_date_tokens(clean(tds[1]), now), clock_fields(parse_time(clean(tds[4]))))

----------------------------------------------------------------------------
\* parse_schedule: enrichment cards (lines 217-307)

FirstToken(first, sp) == IF sp = 0 THEN first ELSE SubSeq(first, 1, sp - 1)

\* first_from_srcset(s): s.split(",")[0].strip().split(" ")[0]
first_from_srcset(s) ==
    IF ~Truthy(s) THEN None
    ELSE FirstToken(Strip(BeforeComma(s)), Find(Strip(BeforeComma(s)), " "))

\* if u and not u.startswith("data:image")
UsableUrl(u) == Truthy(u) /\ ~StartsWith(u, "data:image")

RECURSIVE FirstUsable(_, _)
FirstUsable(us, i) ==
    IF i > Len(us) THEN None
    ELSE IF UsableUrl(us[i]) THEN us[i]
    ELSE FirstUsable(us, i + 1)

\* The first of data-src, data-srcset, srcset, src that is a URL and not inline data
pick_url(img) ==
    FirstUsable(<<img.data_src, first_from_srcset(img.data_srcset),
                  first_from_srcset(img.srcset), img.src>>, 1)

LastLogo(group) == IF group = <<>> THEN None ELSE pick_url(group[Len(group)])

\* Lines 231-251: the last image of the card's image group
group_logo(card) == LastLogo(SelectSeq(card.imgs, LAMBDA im : im.in_group))

\* Lines 256-261: an img[alt] that names the opponent and not Nebraska
alt_matches(alt, opp_name_clean) ==
    /\ ~Contains(Lower(alt), "nebraska")
    /\ \/ Contains(Lower(alt), Lower(opp_name_clean))
       \/ slugify(alt) = slugify(opp_name_clean)

\* Lines 253-273: the URL of the first matching image that has one
RECURSIVE alt_logo(_, _, _)
alt_logo(imgs, opp_name_clean, i) ==
    IF i > Len(imgs) THEN None
    ELSE IF /\ imgs[i].alt # None
            /\ alt_matches(Strip(imgs[i].alt), opp_name_clean)
            /\ Truthy(pick_url(imgs[i]))
         THEN pick_url(imgs[i])
    ELSE alt_logo(imgs, opp_name_clean, i + 1)

StripOpt(x) == IF x = None THEN None ELSE Strip(x)

\* Lines 275-283: the location of a card
card_location(loc_txt) ==
    IF ~Truthy(loc_txt) THEN [city |-> None, venue |-> None]
    ELSE IF Contains(loc_txt, " / ") THEN split_city_venue(loc_txt)
    ELSE [city |-> loc_txt, venue |-> None]

\* Lines 225-229: the marker of a card
card_va(va_txt) == IF va_txt \in {"vs.", "at"} THEN va_txt ELSE "vs."

card_entry(card, opp_name_clean, logo1, loc) ==
    [opp_name |-> opp_name_clean,
     va |-> card_va(IF card.divider = None THEN None ELSE Lower(Strip(card.divider))),
     city |-> loc.city,
     venue |-> loc.venue,
     logo |-> IF ~Truthy(logo1) /\ Truthy(opp_name_clean)
              THEN alt_logo(card.imgs, opp_name_clean, 1) ELSE logo1,
     tv_alt |-> StripOpt(card.tv)]

\* Lines 220-301: one card -> one card_info entry
extract_card(card) ==
    card_entry(card, StripOpt(card.name), group_logo(card), card_location(StripOpt(card.loc)))

\* tv_norm (lines 303-307)
tv_norm(tv_alt) ==
    IF ~Truthy(tv_alt) THEN None
    ELSE Or(normalize_tv(DropNonKeyChars(Strip(Lower(tv_alt)))), normalize_tv(tv_alt))

----------------------------------------------------------------------------
\* parse_schedule: merge and final filter (lines 309-336)

\* Line 317: a and (a in b or b in a)
names_match(a, b) == a # "" /\ (Contains(b, a) \/ Contains(a, b))

\* Lines 314-317: does card entry ci match the record's name
card_matches(ci, name) == Truthy(ci.opp_name) /\ names_match(Lower(ci.opp_name), Lower(name))

\* Lines 312-319: index of the first matching card at or after i, 0 if none (best = None)
RECURSIVE first_match(_, _, _)
first_match(name, cards, i) ==
    IF i > Len(cards) THEN 0
    ELSE IF card_matches(cards[i], name) THEN i
    ELSE first_match(name, cards, i + 1)

\* Variant of the loop without the break of line 319: the last matching card wins
RECURSIVE last_match(_, _, _)
last_match(name, cards, i) ==
    IF i = 0 THEN 0
    ELSE IF card_matches(cards[i], name) THEN i
    ELSE last_match(name, cards, i - 1)

best_card_last(g, cards) == last_match(Strip(Or(g.opponent_name, "")), cards, Len(cards))

\* Line 311 and the loop: (g.get("opponent_name") or "").strip()
best_card(g, cards) == first_match(Strip(Or(g.opponent_name, "")), cards, 1)

GetOr(g, key) == IF key \in DOMAIN g THEN g[key] ELSE None

\* Lines 320-332: the record after the overlay of card entry best
overlay(g, best) ==
    [k \in DOMAIN g \cup {"opponent_logo_url"} |->
        CASE k = "opponent_name" -> Or(best.opp_name, g.opponent_name)
          [] k = "opponent_slug" -> IF Truthy(best.opp_name) THEN slugify(best.opp_name)
                                    ELSE g.opponent_slug
          [] k = "va" -> Or(best.va, g.va)
          [] k = "location_city" -> IF Truthy(best.city) THEN best.city ELSE g.location_city
          [] k = "location_venue" -> IF Truthy(best.venue) THEN best.venue ELSE g.location_venue
          [] k = "stadium_slug" -> IF Truthy(best.venue) THEN compose_slug(best.venue, best.city)
                                   ELSE g.stadium_slug
          [] k = "opponent_logo_url" -> Or(best.logo, GetOr(g, "opponent_logo_url"))
          [] k = "tv_network" -> Or(tv_norm(best.tv_alt), g.tv_network)
          [] OTHER -> g[k]]

overlay_best(g, cards, b) == IF b = 0 THEN g ELSE overlay(g, cards[b])

\* Lines 310-332: one pass of the merge loop
merge_game(g, cards) == overlay_best(g, cards, best_card(g, cards))

\* Variant of line 335 that keeps every record
keep_all(g) == TRUE

\* Line 335: the final filter
keep_game(g) == Truthy(g.opponent_name)

\* Lines 310-332: the merge loop over the whole list
merge_games(gs, cards) == [i \in 1..Len(gs) |-> merge_game(gs[i], cards)]

\* Lines 334-336: games = [g for g in games if g.get("opponent_name")]
final_filter(gs) == SelectSeq(gs, keep_game)

----------------------------------------------------------------------------
\* main: the sort (lines 357-361)

\* Variant of sort_key that ignores date_iso
sort_key_name(g) == "zzz-" \o g.opponent_name

\* Lines 357-361: di or f"zzz-{opponent_name}"
sort_key(g) == IF Truthy(g.date_iso) THEN g.date_iso ELSE "zzz-" \o g.opponent_name

InsertAt(sorted, g, n) == SubSeq(sorted, 1, n) \o <<g>> \o SubSeq(sorted, n + 1, Len(sorted))

\* list.sort(key=sort_key) is stable: an element goes after the elements that were
\* before it and are not greater than it.
InsertByKey(sorted, g) ==
    InsertAt(sorted, g,
             Cardinality({i \in 1..Len(sorted) : ~StrLess(sort_key(g), sort_key(sorted[i]))}))

RECURSIVE SortGames(_)
SortGames(gs) ==
    IF gs = <<>> THEN <<>>
    ELSE InsertByKey(SortGames(SubSeq(gs, 1, Len(gs) - 1)), gs[Len(gs)])

----------------------------------------------------------------------------
\* write_json (lines 339-350) and the output files of main (lines 363-380)

\* Python objects that json handles: None, bool, str, list, dict (a dict keeps the
\* order in which its keys were inserted).  A member of a dict is its key in s
\* and its value in items.
PyNone == [kind |-> "null", s |-> "", items |-> <<>>]
PyBool(b) == [kind |-> IF b THEN "true" ELSE "false", s |-> "", items |-> <<>>]
PyStr(x) == [kind |-> "str", s |-> x, items |-> <<>>]
PyList(xs) == [kind |-> "list", s |-> "", items |-> xs]
PyDict(members) == [kind |-> "dict", s |-> "", items |-> members]
PyMember(key, val) == [kind |-> "member", s |-> key, items |-> <<val>>]

\* A JSON text is the sequence of its tokens; white space between tokens is left
\* out, but for the "\n" that write_json puts at the end.  A string token is the
\* string in quotes (it stands for the escaped string).
Tok(t) == t
StrTok(x) == "\"" \o x \o "\""
StrOf(tok) == SubSeq(tok, 2, Len(tok) - 1)

\* json.dumps(obj, ensure_ascii=False, indent=2)
RECURSIVE dumps(_)
RECURSIVE dumps_items(_, _)
dumps_item(o) ==
    IF o.kind = "member" THEN <<StrTok(o.s), Tok(":")>> \o dumps(o.items[1]) ELSE dumps(o)
dumps_items(items, i) ==
    IF i > Len(items) THEN <<>>
    ELSE (IF i > 1 THEN <<Tok(",")>> ELSE <<>>) \o dumps_item(items[i])
             \o dumps_items(items, i + 1)
dumps(o) ==
    CASE o.kind = "str" -> <<StrTok(o.s)>>
      [] o.kind = "list" -> <<Tok("[")>> \o dumps_items(o.items, 1) \o <<Tok("]")>>
      [] o.kind = "dict" -> <<Tok("{")>> \o dumps_items(o.items, 1) \o <<Tok("}")>>
      [] OTHER -> <<Tok(o.kind)>>

\* json.loads: the value that starts at token i and the position after it, or a
\* failure (json.JSONDecodeError)
ParseFail == [ok |-> FALSE, val |-> PyNone, next |-> 0]
Parsed(val, next) == [ok |-> TRUE, val |-> val, next |-> next]
TokAt(t, i) ==
    IF 1 <= i /\ i <= Len(t) THEN (IF Ch(t[i], 1) = "\"" THEN "str" ELSE t[i]) ELSE ""

RECURSIVE ParseValue(_, _)
RECURSIVE ParseItems(_, _, _)
RECURSIVE ParseMembers(_, _, _)
ParseItems(t, acc, r) ==
    IF ~r.ok THEN ParseFail
    ELSE IF TokAt(t, r.next) = "]" THEN Parsed(PyList(Append(acc, r.val)), r.next + 1)
    ELSE IF TokAt(t, r.next) = ","
    THEN ParseItems(t, Append(acc, r.val), ParseValue(t, r.next + 1))
    ELSE ParseFail
AfterMember(t, acc, key, r) ==
    IF ~r.ok THEN ParseFail
    ELSE IF TokAt(t, r.next) = "}"
    THEN Parsed(PyDict(Append(acc, PyMember(key, r.val))), r.next + 1)
    ELSE IF TokAt(t, r.next) = ","
    THEN ParseMembers(t, Append(acc, PyMember(key, r.val)), r.next + 1)
    ELSE ParseFail
ParseMembers(t, acc, i) ==
    IF TokAt(t, i) = "str" /\ TokAt(t, i + 1) = ":"
    THEN AfterMember(t, acc, StrOf(t[i]), ParseValue(t, i + 2))
    ELSE ParseFail
ParseValue(t, i) ==
    CASE TokAt(t, i) = "null" -> Parsed(PyNone, i + 1)
      [] TokAt(t, i) = "true" -> Parsed(PyBool(TRUE), i + 1)
      [] TokAt(t, i) = "false" -> Parsed(PyBool(FALSE), i + 1)
      [] TokAt(t, i) = "str" -> Parsed(PyStr(StrOf(t[i])), i + 1)
      [] TokAt(t, i) = "[" ->
            IF TokAt(t, i + 1) = "]" THEN Parsed(PyList(<<>>), i + 2)
            ELSE ParseItems(t, <<>>, ParseValue(t, i + 1))
      [] TokAt(t, i) = "{" ->
            IF TokAt(t, i + 1) = "}" THEN Parsed(PyDict(<<>>), i + 2)
            ELSE ParseMembers(t, <<>>, i + 1)
      [] OTHER -> ParseFail

\* The text is one value, with white space after it at most
WholeText(t, r) ==
    IF r.ok /\ SelectSeq(SubSeq(t, r.next, Len(t)), LAMBDA k : k # "\n") = <<>>
    THEN r ELSE ParseFail
loads(t) == WholeText(t, ParseValue(t, 1))

\* A file: absent, or its text
NoFile == [exists |-> FALSE, text |-> <<>>]
FileOf(text) == [exists |-> TRUE, text |-> text]

\* Lines 340-345: old, as [none, obj]; old is None for an absent file, for a text
\* that json.loads rejects, and for the text null
old_from(r) == [none |-> ~r.ok \/ r.val = PyNone, obj |-> r.val]
read_old(file) ==
    IF file.exists THEN old_from(loads(file.text)) ELSE [none |-> TRUE, obj |-> PyNone]

\* Lines 346-350 with new_txt and old: the files after the call and what it returns
write_new(fs, path, new_txt, old) ==
    IF old.none \/ dumps(old.obj) # new_txt
    THEN [fs |-> [fs EXCEPT ![path] = FileOf(new_txt \o <<Tok("\n")>>)], changed |-> TRUE]
    ELSE [fs |-> fs, changed |-> FALSE]

\* write_json(path, obj) on the files fs
write_json(fs, path, obj) == write_new(fs, path, dumps(obj), read_old(fs[path]))

\* The keys of a record of games in the order of their insertion: lines 200-215,
\* then line 331
GameKeys ==
    <<"date_iso", "weekday", "date_str", "time_local", "tba", "site", "va", "opponent_name",
      "opponent_slug", "location_city", "location_venue", "stadium_slug", "tv_network",
      "status", "opponent_logo_url">>

\* The Python object that a field, a record of games, a list of records is
field_obj(key, v) == IF key = "tba" THEN PyBool(v) ELSE IF v = None THEN PyNone ELSE PyStr(v)
game_obj(g) ==
    PyDict([i \in 1..Cardinality(DOMAIN g) |-> PyMember(GameKeys[i], field_obj(GameKeys[i], g[GameKeys[i]]))])
games_obj(gs) == PyList([i \in 1..Len(gs) |-> game_obj(gs[i])])
strings_obj(xs) == PyList([i \in 1..Len(xs) |-> PyStr(xs[i])])

\* sorted(S) of a set of strings
RECURSIVE sorted(_)
least(S) == CHOOSE x \in S : \A y \in S : ~StrLess(y, x)
sorted_from(S, x) == <<x>> \o sorted(S \ {x})
sorted(S) == IF S = {} THEN <<>> ELSE sorted_from(S, least(S))

\* Variant of line 366 without the condition: every stadium_slug is taken
needed_slugs_all(gs) == sorted({gs[i].stadium_slug : i \in DOMAIN gs})

\* Line 366: sorted({g["stadium_slug"] for g in games if g.get("stadium_slug")})
needed_slugs(gs) ==
    sorted({gs[i].stadium_slug : i \in {j \in DOMAIN gs : Truthy(gs[j].stadium_slug)}})

\* Line 370: the slugs without a file <slug>.jpg in assets/stadiums
missing_slugs(slugs, images) == SelectSeq(slugs, LAMBDA slug : slug \notin images)

\* The output files of main, in data/ and mirrored in docs/
OutputNames == <<"schedule.json", "stadiums_needed.json", "stadiums_missing.json">>
DataPath(fname) == "data/" \o fname
DocsPath(fname) == "docs/" \o fname
OutputPaths == {DataPath(OutputNames[i]) : i \in 1..3} \cup {DocsPath(OutputNames[i]) : i \in 1..3}

\* Lines 363-371: the three calls of write_json, one after the other
write_missing(fs, slugs, images) ==
    write_json(fs, DataPath("stadiums_missing.json"), strings_obj(missing_slugs(slugs, images))).fs
write_needed(fs, slugs, images) ==
    write_missing(write_json(fs, DataPath("stadiums_needed.json"), strings_obj(slugs)).fs,
                  slugs, images)
write_outputs(fs, gs, images) ==
    write_needed(write_json(fs, DataPath("schedule.json"), games_obj(gs)).fs,
                 needed_slugs(gs), images)

\* Lines 373-380: a file of data/ is copied to docs/ unless docs/ has the same text
mirror(fs) ==
    [p \in OutputPaths |->
        IF \E i \in 1..3 : p = DocsPath(OutputNames[i]) /\ fs[DataPath(OutputNames[i])].exists
        THEN fs[DataPath(OutputNames[CHOOSE i \in 1..3 : p = DocsPath(OutputNames[i])])]
        ELSE fs[p]]

----------------------------------------------------------------------------
\* The inputs: schedule pages, alias tables, the wall clock.

\* Bound of the model: the table rows and the cards of a page, counted together
MaxPage == 3

\* Table rows (the texts of the cells of one <tr>)
RowHome == <<"Sat Aug 30", "vs.\nCincinnati", "Lincoln, Neb. / Memorial Stadium Lincoln", "TBA">>
RowAway == <<"Sat Dec 6", "at\nMaryland", "Kansas City, Mo. / Arrowhead Stadium", "2:30 PM CST">>
RowBadDay == <<"Sep 31", "vs.\nAkron", "Lincoln, Neb.", "7:00 PM">>
RowHeader == <<"Date", "Opponent", "Location", "Time/Results">>
RowNoName == <<"TBD", "vs.", "", "">>
RowShort == <<"Bye Week">>
SampleRows == {RowHome, RowAway, RowBadDay, RowHeader, RowNoName, RowShort}

NoImg == [in_group |-> FALSE, data_src |-> None, data_srcset |-> None, srcset |-> None,
          src |-> None, alt |-> None]

\* Enrichment cards (what the selectors of the card loop read from one card)
CardBearcats ==
    [name |-> "Cincinnati Bearcats", divider |-> "vs.",
     imgs |-> << [NoImg EXCEPT !.in_group = TRUE, !.src = "/logos/neb.png", !.alt = "Nebraska"],
                 [NoImg EXCEPT !.in_group = TRUE, !.src = "data:image/gif;base64,R0",
                               !.data_srcset = "/logos/cin.png 1x, /logos/cin2.png 2x",
                               !.alt = "Cincinnati Bearcats"] >>,
     loc |-> "Lincoln, Neb. / Memorial Stadium", tv |-> "Big Ten Network"]
CardCincinnati ==
    [name |-> " Cincinnati ", divider |-> None,
     imgs |-> << [NoImg EXCEPT !.src = "/logos/neb.png", !.alt = "Nebraska Cincinnati"],
                 [NoImg EXCEPT !.src = "/logos/cin-alt.png", !.alt = "Cincinnati logo"] >>,
     loc |-> "- / -", tv |-> "FOX"]
CardMaryland ==
    [name |-> "Maryland", divider |-> "@", imgs |-> <<>>,
     loc |-> "Kansas City, Mo. / Arrowhead Stadium", tv |-> "ESPN+"]
CardNoName ==
    [name |-> None, divider |-> "at", imgs |-> <<>>, loc |-> "Lincoln, Neb.", tv |-> None]
SampleCards == {CardBearcats, CardCincinnati, CardMaryland, CardNoName}

\* Rows that differ in one cell: the texts over an alphabet up to a length in the
\* Teams cell after the marker, other Teams cells, and the clock times of the
\* twelve hours in the Time cell
MaxSlugText == 3
SlugAlphabet == {"A", "b", "7", ".", "-", " "}
RECURSIVE TextsOver(_, _)
TextsOver(A, n) ==
    IF n = 0 THEN {""}
    ELSE TextsOver(A, n - 1) \cup {t \o c : t \in TextsOver(A, n - 1), c \in A}
TeamsRow(cell) == <<"TBD", cell, "", "">>
SlugRows == {TeamsRow("vs.\n" \o x) : x \in TextsOver(SlugAlphabet, MaxSlugText)}
MarkerRows ==
    {TeamsRow(cell) : cell \in {"Atlanta", "Opponent", "vs.\nAtlanta", "at\nMaryland",
                                 "AT\nMaryland", "Vs. Akron", "at", "Attica"}}
ClockText(h, mm, meridiem) == ToStr(h) \o ":" \o mm \o " " \o meridiem
ClockRow(time) == <<"Sat Aug 30", "vs.\nAkron", "", time>>
ClockRows ==
    {ClockRow(ClockText(h, mm, meridiem)) :
        h \in 1..12, mm \in {"00", "30", "59"}, meridiem \in {"AM", "PM", "am", "pm"}}

\* The pages of one row, one card at most
OneRowPages(Rows, Cards) ==
    [rows : {<<r>> : r \in Rows}, cards : {<<>>} \cup {<<c>> : c \in Cards}]

\* The pages with rows from Rows and cards from Cards
Pages(Rows, Cards) ==
    UNION {[rows : [1..r -> Rows], cards : [1..(n - r) -> Cards]] :
           <<r, n>> \in {<<r, n>> \in (0..MaxPage) \X (0..MaxPage) : r <= n}}

\* ALIASES as loaded from assets/stadiums/aliases.csv (lines 40-49): one entry
ArrowheadAlias == [k \in {"Arrowhead Stadium"} |-> "arrowhead"]
AliasTables == {ArrowheadAlias}

\* The files <slug>.jpg that assets/stadiums has (line 370)
StadiumImages == {"arrowhead", "memorial-stadium-lincoln"}

\* datetime.now(): the month in which the first run starts, and the month after it
StartClock == [year |-> 2025, month |-> 12]
NextMonth(c) == IF c.month = 12 THEN [year |-> c.year + 1, month |-> 1]
                ELSE [c EXCEPT !.month = @ + 1]

----------------------------------------------------------------------------
\* The state machine: main() is run, and then run again on the same page.

VARIABLES
    html,       \* the page get_html returns: [rows, cards]
    ALIASES,    \* the alias table
    now,        \* the wall clock: [year, month]
    pc,         \* where main is: "table", "merge", "filter", "sort", "sorted", "done",
                \* "raised"
    row_i,      \* index of the next <tr> of the table loop
    games,      \* the list games of parse_schedule, then of main
    card_info,  \* the list card_info
    run,        \* 1 in the first run of main, 2 in the second
    outputs,    \* what the finished runs produced, in order
    files       \* the output files in data/ and docs/

vars == <<html, ALIASES, now, pc, row_i, games, card_info, run, outputs, files>>

\* main starts on one of the pages P
InitOn(P) ==
    /\ html \in P
    /\ ALIASES \in AliasTables
    /\ now = StartClock
    /\ pc = "table"
    /\ row_i = 1
    /\ games = <<>>
    /\ card_info = <<>>
    /\ run = 1
    /\ outputs = <<>>
    /\ files = [p \in OutputPaths |-> NoFile]

InitFrom(Rows, Cards) == InitOn(Pages(Rows, Cards))

Init == InitFrom(SampleRows, SampleCards)

\* Time passes: the clock moves to the next month.  The clock is read only in the
\* table loop, so a tick at another place is a tick before the next table loop.
Tick ==
    /\ pc = "table"
    /\ now = StartClock
    /\ now' = NextMonth(now)
    /\ UNCHANGED <<html, ALIASES, pc, row_i, games, card_info, run, outputs, files>>

\* Lines 122-125: a row with fewer than four cells is skipped.
TableRowSkipped ==
    /\ pc = "table"
    /\ row_i <= Len(html.rows)
    /\ Len(html.rows[row_i]) < 4
    /\ row_i' = row_i + 1
    /\ UNCHANGED <<html, ALIASES, now, pc, games, card_info, run, outputs, files>>

\* Lines 127-215: a row is parsed and appended to games.
TableRowParsed ==
    /\ pc = "table"
    /\ row_i <= Len(html.rows)
    /\ Len(html.rows[row_i]) >= 4
    /\ ~row_raises(html.rows[row_i], now)
    /\ games' = Append(games, parse_row(html.rows[row_i], now, ALIASES))
    /\ row_i' = row_i + 1
    /\ UNCHANGED <<html, ALIASES, now, pc, card_info, run, outputs, files>>

\* Lines 181-185: datetime() raises ValueError; the exception leaves parse_schedule
\* and main, and the run ends without output.
TableRowRaises ==
    /\ pc = "table"
    /\ row_i <= Len(html.rows)
    /\ Len(html.rows[row_i]) >= 4
    /\ row_raises(html.rows[row_i], now)
    /\ pc' = "raised"
    /\ outputs' = Append(outputs, [raised |-> TRUE, games |-> <<>>])
    /\ UNCHANGED <<html, ALIASES, now, row_i, games, card_info, run, files>>

\* Lines 217-301: the card loop.
ExtractCards ==
    /\ pc = "table"
    /\ row_i > Len(html.rows)
    /\ card_info' = [i \in 1..Len(html.cards) |-> extract_card(html.cards[i])]
    /\ pc' = "merge"
    /\ UNCHANGED <<html, ALIASES, now, row_i, games, run, outputs, files>>

\* Lines 309-332: the merge loop.
Merge ==
    /\ pc = "merge"
    /\ games' = merge_games(games, card_info)
    /\ pc' = "filter"
    /\ UNCHANGED <<html, ALIASES, now, row_i, card_info, run, outputs, files>>

\* Lines 334-336: the final filter; parse_schedule returns.
FinalFilter ==
    /\ pc = "filter"
    /\ games' = final_filter(games)
    /\ pc' = "sort"
    /\ UNCHANGED <<html, ALIASES, now, row_i, card_info, run, outputs, files>>

\* Lines 357-361: main sorts the returned list.
Sort ==
    /\ pc = "sort"
    /\ games' = SortGames(games)
    /\ outputs' = Append(outputs, [raised |-> FALSE, games |-> games'])
    /\ pc' = "sorted"
    /\ UNCHANGED <<html, ALIASES, now, row_i, card_info, run, files>>

\* Lines 363-380: main writes the three files and mirrors them into docs/.
WriteFiles ==
    /\ pc = "sorted"
    /\ files' = mirror(write_outputs(files, games, StadiumImages))
    /\ pc' = "done"
    /\ UNCHANGED <<html, ALIASES, now, row_i, games, card_info, run, outputs>>

\* main is run a second time on the same page with the same alias table.
SecondRun ==
    /\ pc \in {"done", "raised"}
    /\ run = 1
    /\ run' = 2
    /\ pc' = "table"
    /\ row_i' = 1
    /\ games' = <<>>
    /\ card_info' = <<>>
    /\ UNCHANGED <<html, ALIASES, now, outputs, files>>

Next ==
    \/ Tick
    \/ TableRowSkipped
    \/ TableRowParsed
    \/ TableRowRaises
    \/ ExtractCards
    \/ Merge
    \/ FinalFilter
    \/ Sort
    \/ WriteFiles
    \/ SecondRun

Spec == Init /\ [][Next]_vars

\* main on the pages of one row, for what the table loop makes of a single cell
InitRow ==
    InitOn(OneRowPages(SlugRows \cup MarkerRows \cup ClockRows \cup {RowShort, RowBadDay}, {}))

RowSpec == InitRow /\ [][Next]_vars

----------------------------------------------------------------------------
\* Properties.

Returned == pc \in {"sort", "sorted"}

\* The rows of the page that the table loop parses, and those among them whose
\* Teams cell gives an opponent name
ParsedRows == {i \in DOMAIN html.rows : Len(html.rows[i]) >= 4}
NamedRows == {i \in ParsedRows : parse_teams(clean(html.rows[i][2])).opp_name # ""}

\* C1: two runs on the same page with the same alias table produce the same
\* records in the same order, whatever the wall clock reads in each run.
C1_SameOutput == Len(outputs) = 2 => outputs[1] = outputs[2]

\* C2: every returned record whose location_venue is a key of the alias table
\* has the alias value as its stadium_slug, whether the venue came from the
\* table row or from a matched card.
C2_AliasShortCircuit ==
    Returned =>
        \A i \in DOMAIN games :
            games[i].location_venue \in DOMAIN ALIASES
                => games[i].stadium_slug = ALIASES[games[i].location_venue]

\* An ISO timestamp YYYY-MM-DDTHH:MM:SS as numbers, and their chronological order
IsoFields(s) ==
    <<ToInt(SubSeq(s, 1, 4)), ToInt(SubSeq(s, 6, 7)), ToInt(SubSeq(s, 9, 10)),
      ToInt(SubSeq(s, 12, 13)), ToInt(SubSeq(s, 15, 16)), ToInt(SubSeq(s, 18, 19))>>
RECURSIVE TupleLeq(_, _, _)
TupleLeq(a, b, i) ==
    IF i > Len(a) THEN TRUE
    ELSE IF a[i] # b[i] THEN a[i] < b[i]
    ELSE TupleLeq(a, b, i + 1)
NotLater(s, t) == TupleLeq(IsoFields(s), IsoFields(t), 1)

Dated(g) == Truthy(g.date_iso)

\* C3: after the sort in main a dated record precedes every undated one, dated
\* records are in ascending chronological order, and undated records are in
\* ascending opponent_name order.
C3_SortOrder ==
    pc = "sorted" =>
        \A i, j \in DOMAIN games :
            i < j =>
                /\ Dated(games[j]) => Dated(games[i])
                /\ Dated(games[i]) /\ Dated(games[j])
                       => NotLater(games[i].date_iso, games[j].date_iso)
                /\ ~Dated(games[i]) /\ ~Dated(games[j])
                       => ~StrLess(games[j].opponent_name, games[i].opponent_name)

\* C3 witness: the sort has moved an undated first row behind two dated records
\* with different timestamps.
C3_Witness ==
    /\ pc = "sorted"
    /\ Len(games) = 3
    /\ Len(html.rows[1]) >= 4
    /\ ~IsDated(parse_date_tokens(clean(html.rows[1][1]), now))
    /\ Dated(games[1]) /\ Dated(games[2]) /\ ~Dated(games[3])
    /\ games[1].date_iso # games[2].date_iso

\* C4: a row whose Teams cell gives an empty opponent name produces no record in
\* the list parse_schedule returns, whatever cards the page has: the returned
\* records are at most the rows that have a name.
C4_NamelessRowsDropped == Returned => Len(games) <= Cardinality(NamedRows)

\* C5: every record of the list parse_schedule returns has a non-empty
\* opponent_name.
C5_NamedRecords ==
    Returned => \A i \in DOMAIN games : Truthy(games[i].opponent_name)

\* C5 witness: a nameless row was parsed on a page without cards, and the list
\* returned has the other records only.
C5_Witness ==
    /\ pc = "sort"
    /\ html.cards = <<>>
    /\ NamedRows # ParsedRows
    /\ Len(games) = Cardinality(NamedRows)
    /\ games # <<>>

\* C6: no row of at least four cells makes parse_schedule raise, and every such
\* row gives a record of the table stage.
C6_NoRowRaises ==
    /\ pc # "raised"
    /\ pc = "merge" => Len(games) = Cardinality(ParsedRows)

\* C7: a record with a resolved date and a TBA time has a date_iso at noon,
\* hour 12 and minute 0.
C7_NoonPlaceholder ==
    \A i \in DOMAIN games :
        Dated(games[i]) /\ games[i].tba => SubSeq(games[i].date_iso, 12, 16) = "12:00"

\* The stadium slug the composition rule of C8 gives: the base slug, followed by
\* "-" and the slug of the city without its state suffix exactly when that city
\* tag is non-empty and not a substring of the base slug.
RuleTagged(base_slug, tag) ==
    IF tag # "" /\ ~Contains(base_slug, tag) THEN base_slug \o "-" \o tag ELSE base_slug
RuleSlug(base, city) ==
    RuleTagged(slugify(base), IF Truthy(city) THEN slugify(BeforeComma(city)) ELSE "")

\* C8: when no alias applies the stadium_slug follows the composition rule, in
\* the table stage and in the recomputation of the merge.
C8_SlugComposition ==
    /\ pc = "table" =>
           \A i \in DOMAIN games :
               games[i].location_venue \notin DOMAIN ALIASES
                   => games[i].stadium_slug =
                          RuleSlug(IF games[i].location_venue # "" THEN games[i].location_venue
                                   ELSE Or(games[i].location_city, "stadium"),
                                   games[i].location_city)
    /\ pc = "merge" =>
           \A i \in DOMAIN games :
               \A b \in DOMAIN card_info :
                   /\ b = best_card(games[i], card_info)
                   /\ Truthy(card_info[b].venue)
                   /\ card_info[b].venue \notin DOMAIN ALIASES
                   => merge_game(games[i], card_info).stadium_slug =
                          RuleSlug(card_info[b].venue, card_info[b].city)

\* C9: in every record, of the table stage, of the merge and of the returned
\* list, tba is true exactly when time_local is "TBA".
C9_TbaIffLiteral ==
    \A i \in DOMAIN games : games[i].tba <=> games[i].time_local = "TBA"

\* C9 witness: the returned list has a record with a clock time and a record
\* without one, and a card was merged into one of them.
C9_Witness ==
    /\ pc = "sort"
    /\ \E i \in DOMAIN games : games[i].tba
    /\ \E i \in DOMAIN games : ~games[i].tba /\ games[i].time_local = "2:30 PM CST"
    /\ \E i \in DOMAIN games : "opponent_logo_url" \in DOMAIN games[i]

\* The cards whose name and the record's name contain one another, case ignored
FuzzyNamed(g) ==
    {k \in DOMAIN card_info :
        /\ Truthy(card_info[k].opp_name)
        /\ \/ Contains(Lower(card_info[k].opp_name), Lower(Strip(Or(g.opponent_name, ""))))
           \/ Contains(Lower(Strip(Or(g.opponent_name, ""))), Lower(card_info[k].opp_name))}
Earliest(S) == CHOOSE k \in S : \A m \in S : k <= m

\* The merge took logo and broadcaster of card k, where it has them
Overlaid(g, merged, k) ==
    /\ merged.opponent_name = card_info[k].opp_name
    /\ merged.opponent_logo_url = Or(card_info[k].logo, GetOr(g, "opponent_logo_url"))
    /\ merged.tv_network = Or(tv_norm(card_info[k].tv_alt), g.tv_network)

\* C10: the merge overlays on each record the earliest card, in document order,
\* whose non-empty name and the record's name contain one another; the logo and
\* the normalized broadcaster are that card's, and a record without such a card
\* is left as it was.
C10_FirstMatchWins ==
    [][pc = "merge" /\ pc' = "filter" =>
        /\ Len(games') = Len(games)
        /\ \A i \in DOMAIN games :
               IF FuzzyNamed(games[i]) = {} THEN games'[i] = games[i]
               ELSE Overlaid(games[i], games'[i], Earliest(FuzzyNamed(games[i])))]_vars

\* C10 witness: two cards with different logos match the name of a row, and a
\* merged record has the logo and the name of the earlier one.
C10_Witness ==
    /\ pc = "filter"
    /\ \E r \in NamedRows, j, k \in DOMAIN card_info, i \in DOMAIN games :
           /\ j < k
           /\ card_matches(card_info[j], parse_teams(clean(html.rows[r][2])).opp_name)
           /\ card_matches(card_info[k], parse_teams(clean(html.rows[r][2])).opp_name)
           /\ card_info[j].opp_name # card_info[k].opp_name
           /\ Truthy(card_info[j].logo) /\ Truthy(card_info[k].logo)
           /\ card_info[j].logo # card_info[k].logo
           /\ games[i].opponent_name = card_info[j].opp_name
           /\ games[i].opponent_logo_url = card_info[j].logo

\* The objects main hands to write_json for the three files, in the order of
\* OutputNames
WrittenObjs(gs) ==
    <<games_obj(gs), strings_obj(needed_slugs(gs)),
      strings_obj(missing_slugs(needed_slugs(gs), StadiumImages))>>

\* C11: once main has written a file, one more call of write_json with the same
\* path and an equal object returns False and leaves the files as they are; and
\* a second run of main on the same page, after a first run that wrote its
\* files, changes no file in data/ or docs/.
C11_IdempotentWrites ==
    [][pc' = "done" =>
        /\ \A i \in 1..3 :
               /\ ~write_json(files', DataPath(OutputNames[i]), WrittenObjs(games')[i]).changed
               /\ write_json(files', DataPath(OutputNames[i]), WrittenObjs(games')[i]).fs = files'
        /\ (run = 2 /\ ~outputs[1].raised) => files' = files]_vars

\* The list of strings that a file of data/ holds
ListIn(fname) == loads(files[DataPath(fname)].text).val.items
StringsIn(fname) == [i \in DOMAIN ListIn(fname) |-> ListIn(fname)[i].s]
NeededWritten == StringsIn("stadiums_needed.json")
MissingWritten == StringsIn("stadiums_missing.json")

\* xs is in ascending order without duplicates and has exactly the strings of S
AscendingListOf(xs, S) ==
    /\ \A i, j \in DOMAIN xs : i < j => StrLess(xs[i], xs[j])
    /\ {xs[i] : i \in DOMAIN xs} = S

\* missing is needed without the slugs that have an image, in the same order
MissingOfNeeded(missing, needed) ==
    /\ missing = SelectSeq(needed, LAMBDA slug : slug \notin StadiumImages)
    /\ \A i \in DOMAIN missing : \E j \in DOMAIN needed : missing[i] = needed[j]

\* C12 as stated: the needed list main writes is, ascending and without
\* duplicates, exactly the set of the stadium_slug values of all output records,
\* and the missing list is the needed slugs without an image, in the same order.
C12_NeededIsAllSlugs ==
    pc = "done" =>
        /\ AscendingListOf(NeededWritten, {games[i].stadium_slug : i \in DOMAIN games})
        /\ MissingOfNeeded(MissingWritten, NeededWritten)

\* C12 amended: the needed list is, ascending and without duplicates, exactly the
\* set of the non-empty stadium_slug values of the output records; the missing
\* list is the needed slugs without an image, in the same order.
C12_NeededIsNonEmptySlugs ==
    pc = "done" =>
        /\ AscendingListOf(NeededWritten,
                           {games[i].stadium_slug : i \in DOMAIN games} \ {"", None})
        /\ MissingOfNeeded(MissingWritten, NeededWritten)

\* C12 witness: three records with two different slugs, one of them with an image.
C12_Witness ==
    /\ pc = "done"
    /\ Len(games) = 3
    /\ Len(NeededWritten) = 2
    /\ Len(MissingWritten) = 1

\* A slug has only characters of [a-z0-9] and single hyphens, none of them first
\* or last
IsSlug(x) ==
    /\ \A i \in 1..Len(x) : Ch(x, i) \in LowerSet \cup DigitSet \cup {"-"}
    /\ x # "" => Ch(x, 1) # "-" /\ Ch(x, Len(x)) # "-"
    /\ ~Contains(x, "--")

\* C13: slugify is total and idempotent and gives a slug: every opponent_slug,
\* which is slugify of the record's name, is a slug that slugify leaves as it is,
\* and the slug of the empty text is empty.
C13_SlugPure ==
    /\ slugify("") = ""
    /\ \A i \in DOMAIN games :
           games[i].opponent_slug # None
               => /\ IsSlug(games[i].opponent_slug)
                  /\ slugify(games[i].opponent_slug) = games[i].opponent_slug

\* C13 witness: the name of a record has an upper-case letter, a run of two
\* characters outside [a-z0-9] and a hyphen at its end, and its slug is not the
\* name.
C13_Witness ==
    \E i \in DOMAIN games :
        /\ games[i].opponent_name = "A.-"
        /\ games[i].opponent_slug = "a"

\* The table loop has ended and nothing is merged yet: the k-th record of games
\* is of the k-th row of at least four cells
TableDone == pc = "merge"
RowOfGame(k) == CHOOSE r \in ParsedRows : Cardinality({q \in ParsedRows : q <= r}) = k
TeamsCellOf(k) == clean(html.rows[RowOfGame(k)][2])

\* The cell begins with the marker vs. or at as a token of its own
BeginsWithMarker(cell) ==
    \E m \in {"vs.", "at"} :
        /\ StartsWith(Lower(cell), m)
        /\ Len(cell) = Len(m) \/ Ch(cell, Len(m) + 1) \in SpaceSet

\* C14: a row whose Teams cell does not begin with the marker "vs." or "at" as a
\* token of its own gives a record with marker "vs." and the whole cell as its
\* opponent name, and the record is not an away game.
C14_MarkerDefault ==
    TableDone =>
        \A k \in DOMAIN games :
            ~BeginsWithMarker(TeamsCellOf(k))
                => /\ games[k].va = "vs."
                   /\ games[k].opponent_name = TeamsCellOf(k)
                   /\ games[k].site # "away"

\* The hour of the 24-hour clock for hour h of the 12-hour clock
Hour24(h, meridiem) ==
    IF Upper(meridiem) = "AM" THEN (IF h = 12 THEN 0 ELSE h)
    ELSE (IF h = 12 THEN 12 ELSE h + 12)

\* C15: a row with the date Sat Aug 30 and a clock time h:mm with meridiem, h in
\* 1..12, gives a record that is not TBA and whose date_iso has the hour of the
\* 24-hour clock and the same minutes.
C15_ClockConversion ==
    TableDone =>
        \A k \in DOMAIN games :
            \A h \in 1..12, mm \in {"00", "30", "59"}, meridiem \in {"AM", "PM", "am", "pm"} :
                html.rows[RowOfGame(k)] = ClockRow(ClockText(h, mm, meridiem))
                    => /\ ~games[k].tba
                       /\ Dated(games[k])
                       /\ SubSeq(games[k].date_iso, 6, 10) = "08-30"
                       /\ ToInt(SubSeq(games[k].date_iso, 12, 13)) = Hour24(h, meridiem)
                       /\ SubSeq(games[k].date_iso, 15, 16) = mm

\* C15 witness: the row of 12:30 am has given a record at 00:30.
C15_Witness ==
    /\ TableDone
    /\ \E k \in DOMAIN games :
           /\ html.rows[RowOfGame(k)] = ClockRow("12:30 am")
           /\ games[k].time_local = "12:30 AM"
           /\ SubSeq(games[k].date_iso, 12, 16) = "00:30"

\* C16: in every returned record the site is "away" exactly when the record's
\* marker va is "at", also after the merge has taken the marker of a card.
C16_AwayIffAt ==
    Returned => \A i \in DOMAIN games : games[i].site = "away" <=> games[i].va = "at"

====
